---- MODULE Spec2Model ----
(***************************************************************************)
(* Model of the task data / scoring / persistence engine of the Daily      *)
(* Priority Tracker (src/storage.js, class StorageManager) and of the few  *)
(* app.js handlers that call into it.                                      *)
(*                                                                         *)
(* Conventions                                                             *)
(*  - A JavaScript object is a TLA+ record; an absent property is a field  *)
(*    that is not in the record's DOMAIN, so `{...a, ...b}` is Merge(a,b). *)
(*  - A JavaScript string that the code trims, lower-cases or tests for    *)
(*    emptiness is a sequence of one-character strings.                    *)
(*  - Timestamps (ISO strings in the code) are integers read off the       *)
(*    clock `now`; a calendar day is now \div DayLen.                      *)
(*  - A localStorage slot is [st |-> "absent"], [st |-> "corrupt"] (bytes  *)
(*    that JSON.parse rejects) or [st |-> "ok", data |-> collection].      *)
(*  - localStorage.setItem may throw (quota); every call takes a flag that *)
(*    says whether the write went through.                                 *)
(*  - smartScore is kept in tenths (an integer): Math.round(score*10).     *)
(*  - tabs holds, for each page that has the application open on the same  *)
(*    localStorage, where its addTask call stands and what it has loaded.  *)
(*  - settings is the third localStorage slot, the one under settingsKey.   *)
(***************************************************************************)
EXTENDS Integers, Sequences, FiniteSets, TLC

VARIABLES main, backup, now, last, tabs, settings

vars == <<main, backup, now, last, tabs, settings>>

---------------------------------------------------------------------------
(* Bounds of the model *)

MaxTime == 1
MaxTasks == 2
MaxId == 2
MaxComments == 1
DayLen == 1
StackDepth == 2

---------------------------------------------------------------------------
(* Values *)

Null == -1
NaN == -1000
Epoch == 100
Version == "1.0.0"

Absent == [st |-> "absent"]
Corrupt == [st |-> "corrupt"]
Ok(d) == [st |-> "ok", data |-> d]

Max(a, b) == IF a >= b THEN a ELSE b
Min(a, b) == IF a <= b THEN a ELSE b

Has(r, f) == f \in DOMAIN r
Get(r, f, d) == IF f \in DOMAIN r THEN r[f] ELSE d

\* {...a, ...b}
Merge(a, b) == b @@ a

\* F(x) with x evaluated once
Let(x, F(_)) == CHOOSE r \in {F(y) : y \in {x}} : TRUE

DateNow(t) == Epoch + t
Today(t) == t \div DayLen

RECURSIVE TrimLeft(_)
TrimLeft(s) ==
    IF s # <<>> /\ Head(s) = " " THEN TrimLeft(Tail(s)) ELSE s

RECURSIVE TrimRight(_)
TrimRight(s) ==
    IF s # <<>> /\ s[Len(s)] = " " THEN TrimRight(SubSeq(s, 1, Len(s) - 1)) ELSE s

Trim(s) == TrimRight(TrimLeft(s))

ParseIntOr(x, d) == IF x = NaN \/ x = 0 THEN d ELSE x

\* Math.max(...s, 0)
SeqMax(s) ==
    CHOOSE x \in {s[i] : i \in 1..Len(s)} \cup {0} :
        \A i \in 1..Len(s) : x >= s[i]

Ids(tasks) == [i \in 1..Len(tasks) |-> tasks[i].id]

FindIndex(tasks, id) ==
    IF \E i \in 1..Len(tasks) : tasks[i].id = id
    THEN CHOOSE i \in 1..Len(tasks) :
            tasks[i].id = id /\ \A j \in 1..(i - 1) : tasks[j].id # id
    ELSE 0

---------------------------------------------------------------------------
(* Task Model, Validator and Scoring Engine *)

IsObject(task) == ~Has(task, "nonObject")

isTaskOverdue(task, t) ==
    IF task.eta = Null \/ task.completed THEN FALSE ELSE task.eta < t

isTaskUrgent(task) ==
    task.eisenhowerMatrix = "Q1" \/ task.eisenhowerMatrix = "Q3"

isTaskImportant(task) ==
    task.eisenhowerMatrix = "Q1" \/ task.eisenhowerMatrix = "Q2"

priorityScore10(task) == task.priority * 4

urgencyScore(task, t) ==
    IF task.eta = Null THEN 5
    ELSE IF task.eta - t < 0 THEN 30
    ELSE IF task.eta - t <= DayLen THEN 25
    ELSE IF task.eta - t <= 7 * DayLen THEN 20
    ELSE IF task.eta - t <= 30 * DayLen THEN 10
    ELSE 5

\* Property names that every object literal inherits from Object.prototype.
InheritedKeys == {"constructor", "toString"}

\* eisenhowerScores[task.eisenhowerMatrix] || 15: for an inherited name the
\* lookup gives a function, which is truthy; NaN stands for that value.
eisenhowerScore(task) ==
    CASE task.eisenhowerMatrix = "Q1" -> 20
      [] task.eisenhowerMatrix = "Q2" -> 15
      [] task.eisenhowerMatrix = "Q3" -> 10
      [] task.eisenhowerMatrix = "Q4" -> 5
      [] task.eisenhowerMatrix \in InheritedKeys -> NaN
      [] OTHER -> 15

effortScore(task) ==
    IF task.timeRequired <= 30 THEN 10
    ELSE IF task.timeRequired <= 120 THEN 8
    ELSE IF task.timeRequired <= 480 THEN 5
    ELSE 2

\* `score += <function>` turns score into a string, and Math.round of a
\* string that is no number is NaN.
calculateSmartScore(task, t) ==
    IF eisenhowerScore(task) = NaN THEN NaN
    ELSE priorityScore10(task)
          + 10 * (urgencyScore(task, t) + eisenhowerScore(task) + effortScore(task))

validateCommentsWraps(task) ==
    IF ~Has(task, "comments") THEN [arr |-> <<>>]
    ELSE IF Has(task.comments, "arr") THEN [arr |-> <<task.comments>>]
    ELSE IF task.comments.str # <<>> THEN [arr |-> <<[text |-> task.comments.str]>>]
    ELSE [arr |-> <<>>]

validateComments(task) ==
    IF ~Has(task, "comments") THEN [arr |-> <<>>]
    ELSE IF Has(task.comments, "arr") THEN task.comments
    ELSE IF task.comments.str # <<>> THEN [arr |-> <<[text |-> task.comments.str]>>]
    ELSE [arr |-> <<>>]

validatedFields(task, t) ==
    [id |-> IF Get(task, "id", 0) = 0 THEN DateNow(t) ELSE task.id,
     name |-> Trim(Get(task, "name", <<>>)),
     why |-> Trim(Get(task, "why", <<>>)),
     eta |-> Get(task, "eta", Null),
     timeRequired |-> Max(5, ParseIntOr(Get(task, "timeRequired", NaN), 60)),
     priority |-> Min(100, Max(1, ParseIntOr(Get(task, "priority", NaN), 50))),
     eisenhowerMatrix |->
        IF Get(task, "eisenhowerMatrix", "") = "" THEN "Q2" ELSE task.eisenhowerMatrix,
     completed |-> Get(task, "completed", FALSE),
     createdAt |-> IF Get(task, "createdAt", Null) = Null THEN t ELSE task.createdAt,
     updatedAt |-> IF Get(task, "updatedAt", Null) = Null THEN t ELSE task.updatedAt,
     completedAt |-> Get(task, "completedAt", Null),
     comments |-> validateComments(task),
     date |-> IF Get(task, "date", Null) = Null THEN Today(t) ELSE task.date]

\* The result of validateTask is [ok |-> FALSE] for null, else [ok |-> TRUE, task |-> ...].
validateTask(task, t) ==
    Let(task, LAMBDA raw :
        IF ~IsObject(raw) THEN [ok |-> FALSE]
        ELSE Let(validatedFields(raw, t), LAMBDA v :
                [ok |-> TRUE,
                 task |-> Merge(v, [overdue |-> isTaskOverdue(v, t),
                                    urgent |-> isTaskUrgent(v),
                                    important |-> isTaskImportant(v),
                                    smartScore |-> calculateSmartScore(v, t)])]))

\* tasks.map(task => this.validateTask(task)).filter(Boolean)
validateAll(raw, t) ==
    Let([i \in 1..Len(raw) |-> validateTask(raw[i], t)], LAMBDA vs :
        Let(SelectSeq([k \in 1..Len(raw) |-> k], LAMBDA k : vs[k].ok),
            LAMBDA kept : [j \in 1..Len(kept) |-> vs[kept[j]].task]))

---------------------------------------------------------------------------
(* Persistence Store *)

InitialData(t) ==
    [version |-> Version, createdAt |-> t, lastModified |-> t,
     tasks |-> <<>>, nextId |-> 1]

handleStorageErrorNoBackup(b, t) == InitialData(t)

handleStorageError(b, t) ==
    IF b.st = "ok" THEN b.data ELSE InitialData(t)

\* validateAndMigrate throws at line 52 when nextId is missing and a task is
\* null (t.id of null); otherwise it computes the migrated collection.
migrateThrows(data) ==
    /\ Get(data, "nextId", 0) = 0
    /\ Has(data, "tasks")
    /\ \E i \in 1..Len(data.tasks) : ~IsObject(data.tasks[i])

migratedRecomputes(data, t) ==
    Let(validateAll(Get(data, "tasks", <<>>), t), LAMBDA tasks1 :
        [version |-> Get(data, "version", Version),
         createdAt |-> IF Get(data, "createdAt", Null) = Null THEN t ELSE data.createdAt,
         lastModified |-> t,
         tasks |-> tasks1,
         nextId |-> SeqMax(Ids(tasks1)) + 1])

\* Math.max(...data.tasks.map(t => t.id), 0) + 1 is NaN when a task has no id;
\* JSON.stringify writes NaN as null, which the code reads like 0.
migrated(data, t) ==
    Let(Get(data, "tasks", <<>>), LAMBDA tasks0 :
        [version |-> Get(data, "version", Version),
         createdAt |-> IF Get(data, "createdAt", Null) = Null THEN t ELSE data.createdAt,
         lastModified |-> t,
         tasks |-> validateAll(tasks0, t),
         nextId |-> IF Get(data, "nextId", 0) # 0 THEN data.nextId
                    ELSE IF \E i \in 1..Len(tasks0) : ~Has(tasks0[i], "id") THEN 0
                    ELSE SeqMax([i \in 1..Len(tasks0) |-> tasks0[i].id]) + 1])

\* The main slot after validateAndMigrate(data); thrown says whether it threw.
validateAndMigrate(m, data, t, wOk) ==
    IF migrateThrows(data) \/ ~wOk THEN [main |-> m, thrown |-> TRUE]
    ELSE [main |-> Ok(migrated(data, t)), thrown |-> FALSE]

\* The main slot after initializeStorage(); it swallows every error.
initializeStorage(m, t, wOk) ==
    IF m.st = "absent" THEN (IF wOk THEN Ok(InitialData(t)) ELSE m)
    ELSE IF m.st = "corrupt" THEN m
    ELSE validateAndMigrate(m, m.data, t, wOk).main

\* getAllData(): `fails` is the number of initializeStorage calls whose write
\* throws before one goes through; `depth` counts the nested calls.  At
\* StackDepth nested calls the engine throws RangeError, which the innermost
\* try/catch turns into handleStorageError.
RECURSIVE getAllData(_, _, _, _, _)
getAllData(m, b, t, fails, depth) ==
    IF m.st = "absent" THEN
        IF depth >= StackDepth
        THEN [data |-> handleStorageError(b, t), main |-> m, retries |-> depth]
        ELSE getAllData(initializeStorage(m, t, depth >= fails), b, t, fails, depth + 1)
    ELSE IF m.st = "corrupt"
        THEN [data |-> handleStorageError(b, t), main |-> m, retries |-> depth]
        ELSE [data |-> m.data, main |-> m, retries |-> depth]

saveAllDataNoBackup(m, b, data, t, wb, wm) ==
    IF wm
    THEN [main |-> Ok(Merge(data, [lastModified |-> t])), backup |-> b,
          ok |-> TRUE, threw |-> "none"]
    ELSE [main |-> m, backup |-> b, ok |-> FALSE, threw |-> "main"]

saveAllDataReportsSuccess(m, b, data, t, wb, wm) ==
    IF m.st # "absent" /\ ~wb
    THEN [main |-> m, backup |-> b, ok |-> FALSE, threw |-> "backup"]
    ELSE IF wm
    THEN [main |-> Ok(Merge(data, [lastModified |-> t])),
          backup |-> IF m.st # "absent" THEN m ELSE b, ok |-> TRUE, threw |-> "none"]
    ELSE [main |-> m, backup |-> IF m.st # "absent" THEN m ELSE b,
          ok |-> TRUE, threw |-> "main"]

\* saveAllData(data): wb and wm say whether the write of the backup slot and
\* of the main slot go through; threw names the write that threw.
saveAllData(m, b, data, t, wb, wm) ==
    IF m.st # "absent" /\ ~wb
    THEN [main |-> m, backup |-> b, ok |-> FALSE, threw |-> "backup"]
    ELSE IF wm
    THEN [main |-> Ok(Merge(data, [lastModified |-> t])),
          backup |-> IF m.st # "absent" THEN m ELSE b, ok |-> TRUE, threw |-> "none"]
    ELSE [main |-> m, backup |-> IF m.st # "absent" THEN m ELSE b,
          ok |-> FALSE, threw |-> "main"]

getAllTasks(m, b, t, fails) == Get(getAllData(m, b, t, fails, 0).data, "tasks", <<>>)

---------------------------------------------------------------------------
(* Task Repository: each operator computes the whole handler.  The result  *)
(* carries the two slots after the call and the outcome: status "ok" for a *)
(* normal return, otherwise the error that was thrown.                     *)

Result(m, b, status, L) ==
    [main |-> m, backup |-> b, status |-> status, retries |-> L.retries,
     threw |-> "none"]

\* `if (this.saveAllData(data)) return ...; throw new Error('Failed to save ...')`
Saved(S, L) ==
    [main |-> S.main, backup |-> S.backup,
     status |-> IF S.ok THEN "ok" ELSE "persist", retries |-> L.retries,
     threw |-> S.threw]

newTaskOverridesKeepCompleted(data, t) ==
    [id |-> data.nextId, createdAt |-> t, updatedAt |-> t, date |-> Today(t)]

\* the properties addTask sets after spreading taskData
newTaskOverrides(data, t) ==
    [id |-> data.nextId, createdAt |-> t, updatedAt |-> t, completed |-> FALSE,
     date |-> Today(t)]

addTaskFromStored(m, b, t, L, taskData, wb, wm) ==
    Let(IF m.st = "ok" THEN m.data ELSE L.data, LAMBDA data :
    Let(validateTask(Merge(taskData, newTaskOverrides(data, t)), t), LAMBDA v :
        IF ~v.ok \/ v.task.name = <<>> \/ v.task.why = <<>>
        THEN Result(m, b, "required", L)
        ELSE Let(saveAllData(m, b,
                    Merge(data, [tasks |-> Append(data.tasks, v.task),
                                 nextId |-> data.nextId + 1]), t, wb, wm),
                 LAMBDA S : Saved(S, L))))

\* addTask after `const data = this.getAllData()` has returned L; m and b are
\* the slots when the rest of the call runs.
addTaskFrom(m, b, t, L, taskData, wb, wm) ==
    Let(validateTask(Merge(taskData, newTaskOverrides(L.data, t)), t), LAMBDA v :
        IF ~v.ok \/ v.task.name = <<>> \/ v.task.why = <<>>
        THEN Result(m, b, "required", L)
        ELSE Let(saveAllData(m, b,
                    Merge(L.data, [tasks |-> Append(L.data.tasks, v.task),
                                   nextId |-> L.data.nextId + 1]), t, wb, wm),
                 LAMBDA S : Saved(S, L)))

addTask(m, b, t, taskData, fails, wb, wm) ==
    Let(getAllData(m, b, t, fails, 0), LAMBDA L :
        addTaskFrom(L.main, b, t, L, taskData, wb, wm))

updatedCompletedAtAlways(currentTask, updates, t) ==
    IF Get(updates, "completed", FALSE) THEN t ELSE currentTask.completedAt

updatedCompletedAtFromPatch(currentTask, updates, t) ==
    IF Get(updates, "completed", FALSE) /\ ~currentTask.completed THEN t
    ELSE Get(updates, "completedAt", currentTask.completedAt)

updatedCompletedAt(currentTask, updates, t) ==
    IF Get(updates, "completed", FALSE) /\ ~currentTask.completed
    THEN t ELSE currentTask.completedAt

updateTaskKeepsPatchId(m, b, t, taskId, updates, fails, wb, wm) ==
    Let(getAllData(m, b, t, fails, 0), LAMBDA L :
    Let(FindIndex(L.data.tasks, taskId), LAMBDA taskIndex :
        IF taskIndex = 0 THEN Result(L.main, b, "notfound", L)
        ELSE
    Let(L.data.tasks[taskIndex], LAMBDA currentTask :
    Let(validateTask(
            Merge(Merge(currentTask, updates),
                  [updatedAt |-> t,
                   completedAt |-> updatedCompletedAt(currentTask, updates, t)]), t),
        LAMBDA v :
        IF ~v.ok THEN Result(L.main, b, "invalid", L)
        ELSE Let(saveAllData(L.main, b,
                    Merge(L.data, [tasks |-> [L.data.tasks EXCEPT ![taskIndex] = v.task]]),
                    t, wb, wm),
                 LAMBDA S : Saved(S, L))))))

updateTask(m, b, t, taskId, updates, fails, wb, wm) ==
    Let(getAllData(m, b, t, fails, 0), LAMBDA L :
    Let(FindIndex(L.data.tasks, taskId), LAMBDA taskIndex :
        IF taskIndex = 0 THEN Result(L.main, b, "notfound", L)
        ELSE
    Let(L.data.tasks[taskIndex], LAMBDA currentTask :
    Let(validateTask(
            Merge(Merge(currentTask, updates),
                  [id |-> taskId, updatedAt |-> t,
                   completedAt |-> updatedCompletedAt(currentTask, updates, t)]), t),
        LAMBDA v :
        IF ~v.ok THEN Result(L.main, b, "invalid", L)
        ELSE Let(saveAllData(L.main, b,
                    Merge(L.data, [tasks |-> [L.data.tasks EXCEPT ![taskIndex] = v.task]]),
                    t, wb, wm),
                 LAMBDA S : Saved(S, L))))))

deleteTaskRecomputesNextId(m, b, t, taskId, fails, wb, wm) ==
    Let(getAllData(m, b, t, fails, 0), LAMBDA L :
    Let(SelectSeq(L.data.tasks, LAMBDA task : task.id # taskId), LAMBDA kept :
        IF Len(kept) = Len(L.data.tasks) THEN Result(L.main, b, "notfound", L)
        ELSE Let(saveAllData(L.main, b,
                    Merge(L.data, [tasks |-> kept, nextId |-> SeqMax(Ids(kept)) + 1]),
                    t, wb, wm),
                 LAMBDA S : Saved(S, L))))

deleteTaskSavesFirst(m, b, t, taskId, fails, wb, wm) ==
    Let(getAllData(m, b, t, fails, 0), LAMBDA L :
    Let(SelectSeq(L.data.tasks, LAMBDA task : task.id # taskId), LAMBDA kept :
    Let(saveAllData(L.main, b, Merge(L.data, [tasks |-> kept]), t, wb, wm), LAMBDA S :
        IF Len(kept) = Len(L.data.tasks) THEN Result(S.main, S.backup, "notfound", L)
        ELSE Saved(S, L))))

deleteTaskFirstOnly(m, b, t, taskId, fails, wb, wm) ==
    Let(getAllData(m, b, t, fails, 0), LAMBDA L :
    Let(FindIndex(L.data.tasks, taskId), LAMBDA taskIndex :
        IF taskIndex = 0 THEN Result(L.main, b, "notfound", L)
        ELSE Let(saveAllData(L.main, b,
                    Merge(L.data,
                          [tasks |-> SubSeq(L.data.tasks, 1, taskIndex - 1)
                                      \o SubSeq(L.data.tasks, taskIndex + 1,
                                                Len(L.data.tasks))]),
                    t, wb, wm),
                 LAMBDA S : Saved(S, L))))

deleteTask(m, b, t, taskId, fails, wb, wm) ==
    Let(getAllData(m, b, t, fails, 0), LAMBDA L :
    Let(SelectSeq(L.data.tasks, LAMBDA task : task.id # taskId), LAMBDA kept :
        IF Len(kept) = Len(L.data.tasks) THEN Result(L.main, b, "notfound", L)
        ELSE Let(saveAllData(L.main, b, Merge(L.data, [tasks |-> kept]), t, wb, wm),
                 LAMBDA S : Saved(S, L))))

\* task.comments after `if (!Array.isArray(task.comments)) task.comments = []`
commentsArray(task) ==
    IF Has(task, "comments") /\ Has(task.comments, "arr") THEN task.comments.arr ELSE <<>>

addComment(m, b, t, taskId, comment, fails, wb, wm) ==
    Let(getAllData(m, b, t, fails, 0), LAMBDA L :
    Let(FindIndex(L.data.tasks, taskId), LAMBDA taskIndex :
    Let([id |-> DateNow(t), text |-> Trim(comment), timestamp |-> t], LAMBDA commentObj :
        IF taskIndex = 0 THEN Result(L.main, b, "notfound", L)
        ELSE IF commentObj.text = <<>> THEN Result(L.main, b, "empty", L)
        ELSE
    Let(L.data.tasks[taskIndex], LAMBDA task :
    Let(Merge(task, [comments |-> [arr |-> Append(commentsArray(task), commentObj)],
                     updatedAt |-> t]), LAMBDA task2 :
    Let(saveAllData(L.main, b,
            Merge(L.data, [tasks |-> [L.data.tasks EXCEPT ![taskIndex] = task2]]),
            t, wb, wm),
        LAMBDA S : Saved(S, L)))))))

\* new Map(data.tasks.map(task => [task.id, task])).get(taskId): the last task with that id
MapGet(tasks, id) ==
    tasks[CHOOSE i \in 1..Len(tasks) :
            tasks[i].id = id /\ \A j \in (i + 1)..Len(tasks) : tasks[j].id # id]

\* taskIds.forEach((taskId, index) => ...): a copy of the task for each position
\* of taskIds whose id is in the collection, with priority index + 1
reordered(tasks, taskIds, t) ==
    Let(SelectSeq([k \in 1..Len(taskIds) |-> k],
                  LAMBDA k : \E i \in 1..Len(tasks) : tasks[i].id = taskIds[k]),
        LAMBDA found :
            [j \in 1..Len(found) |->
                Merge(MapGet(tasks, taskIds[found[j]]),
                      [priority |-> found[j], updatedAt |-> t])])

reorderTasks(m, b, t, taskIds, fails, wb, wm) ==
    Let(getAllData(m, b, t, fails, 0), LAMBDA L :
    Let(SelectSeq(L.data.tasks,
            LAMBDA task : \A i \in 1..Len(taskIds) : taskIds[i] # task.id),
        LAMBDA untouchedTasks :
    Let(saveAllData(L.main, b,
            Merge(L.data, [tasks |-> reordered(L.data.tasks, taskIds, t)
                                        \o untouchedTasks]),
            t, wb, wm),
        LAMBDA S : Saved(S, L))))

\* importData(jsonData): a payload is [json |-> FALSE] for text JSON.parse
\* rejects, else a record that has a field `tasks` exactly when the parsed
\* value has an array under `tasks`.  wi: the write of the backup at line 505.
importData(m, b, t, payload, fails, wi, wb, wm) ==
    IF Has(payload, "json")
    THEN [main |-> m, backup |-> b, status |-> "syntax", retries |-> 0,
          threw |-> "none", imported |-> 0]
    ELSE IF ~Has(payload, "tasks")
    THEN [main |-> m, backup |-> b, status |-> "format", retries |-> 0,
          threw |-> "none", imported |-> 0]
    ELSE
    Let(getAllData(m, b, t, fails, 0), LAMBDA L :
        IF ~wi THEN [main |-> L.main, backup |-> b, status |-> "quota",
                     retries |-> L.retries, threw |-> "backup", imported |-> 0]
        ELSE
    Let(validateAll(payload.tasks, t), LAMBDA processedTasks :
    Let(saveAllData(L.main, Ok(L.data),
            [version |-> Version,
             createdAt |-> IF Get(payload, "createdAt", Null) = Null
                           THEN t ELSE payload.createdAt,
             lastModified |-> t,
             tasks |-> processedTasks,
             nextId |-> SeqMax(Ids(processedTasks)) + 1], t, wb, wm),
        LAMBDA S : Merge(Saved(S, L), [imported |-> Len(processedTasks)]))))

\* exportData(): the main slot as getAllData leaves it, and the parsed form of
\* the returned text: the loaded collection with the two export fields.  Every
\* value of a collection is a string, a number, a boolean, null or an array,
\* which JSON.stringify and JSON.parse give back unchanged.
exportData(m, b, t, fails) ==
    Let(getAllData(m, b, t, fails, 0), LAMBDA L :
        [main |-> L.main,
         payload |-> Merge(L.data, [exportedAt |-> t, exportVersion |-> Version])])

clearAllDataNoBackup(m, b, t, fails, wi, wInit) ==
    Let(getAllData(m, b, t, fails, 0), LAMBDA L :
        Result(initializeStorage(Absent, t, wInit), b, "ok", L))

clearAllData(m, b, t, fails, wi, wInit) ==
    Let(getAllData(m, b, t, fails, 0), LAMBDA L :
        IF ~wi THEN [main |-> L.main, backup |-> b, status |-> "false",
                     retries |-> L.retries, threw |-> "backup"]
        ELSE Result(initializeStorage(Absent, t, wInit), Ok(L.data), "ok", L))

\* the main slot found goes to the backup slot
restoreFromBackupSwaps(m, b, t, wOk) ==
    IF b.st = "absent"
    THEN [main |-> m, backup |-> b, status |-> "nobackup", retries |-> 0,
          threw |-> "none"]
    ELSE IF b.st = "corrupt"
    THEN [main |-> m, backup |-> b, status |-> "syntax", retries |-> 0,
          threw |-> "none"]
    ELSE Let(validateAndMigrate(m, b.data, t, wOk), LAMBDA V :
            [main |-> V.main, backup |-> IF V.thrown THEN b ELSE m,
             status |-> IF V.thrown THEN "quota" ELSE "ok", retries |-> 0,
             threw |-> IF ~wOk /\ ~migrateThrows(b.data) THEN "main" ELSE "none"])

restoreFromBackup(m, b, t, wOk) ==
    IF b.st = "absent"
    THEN [main |-> m, backup |-> b, status |-> "nobackup", retries |-> 0,
          threw |-> "none"]
    ELSE IF b.st = "corrupt"
    THEN [main |-> m, backup |-> b, status |-> "syntax", retries |-> 0,
          threw |-> "none"]
    ELSE Let(validateAndMigrate(m, b.data, t, wOk), LAMBDA V :
            [main |-> V.main, backup |-> b,
             status |-> IF V.thrown THEN "quota" ELSE "ok", retries |-> 0,
             threw |-> IF ~wOk /\ ~migrateThrows(b.data) THEN "main" ELSE "none"])

---------------------------------------------------------------------------
(* Application handlers (src/app.js) *)

\* handleTaskSubmit(e): form holds the values of the form's fields, comments
\* being the text of the comments box; currentEditingTask is 0 for a new task.
handleTaskSubmit(m, b, t, currentEditingTask, form, fails, wb, wm) ==
    Let([name |-> Trim(form.name),
         why |-> Trim(form.why),
         eta |-> form.eta,
         timeRequired |-> ParseIntOr(form.timeRequired, 60),
         priority |-> ParseIntOr(form.priority, 50),
         eisenhowerMatrix |-> IF form.eisenhowerMatrix = "" THEN "Q2"
                              ELSE form.eisenhowerMatrix,
         comments |-> [str |-> Trim(form.comments)]],
        LAMBDA taskData :
            IF taskData.name = <<>> \/ taskData.why = <<>>
            THEN [main |-> m, backup |-> b, status |-> "required", retries |-> 0,
                  threw |-> "none"]
            ELSE IF currentEditingTask # 0
            THEN updateTask(m, b, t, currentEditingTask, taskData, fails, wb, wm)
            ELSE addTask(m, b, t, taskData, fails, wb, wm))

\* tasks.find(t => t.id === taskId): the index of the first such task, or 0
FindFirst(tasks, taskId) ==
    IF \E i \in 1..Len(tasks) : tasks[i].id = taskId
    THEN CHOOSE i \in 1..Len(tasks) :
            tasks[i].id = taskId /\ \A j \in 1..(i - 1) : tasks[j].id # taskId
    ELSE 0

\* today's tasks out of a loaded collection (getTodaysTasks on it)
TodaysOf(data, t) ==
    SelectSeq(Get(data, "tasks", <<>>), LAMBDA task : task.date = Today(t))

\* toggleTaskCompletion(taskId): the lookup loads once, updateTask loads again
\* (fails2 is for that second load).  Every error is caught and shown.
toggleTaskCompletion(m, b, t, taskId, fails, fails2, wb, wm) ==
    Let(getAllData(m, b, t, fails, 0), LAMBDA L :
    Let(TodaysOf(L.data, t), LAMBDA tasks :
    Let(FindFirst(tasks, taskId), LAMBDA k :
        IF k = 0 THEN Result(L.main, b, "notfound", L)
        ELSE updateTask(L.main, b, t, taskId,
                        [completed |-> ~tasks[k].completed], fails2, wb, wm))))

\* deleteTask(taskId) of the application; confirmed is the answer to confirm()
App_deleteTask(m, b, t, taskId, confirmed, fails, fails2, wb, wm) ==
    Let(getAllData(m, b, t, fails, 0), LAMBDA L :
    Let(TodaysOf(L.data, t), LAMBDA tasks :
    Let(FindFirst(tasks, taskId), LAMBDA k :
        IF k = 0 THEN Result(L.main, b, "notfound", L)
        ELSE IF ~confirmed THEN Result(L.main, b, "cancelled", L)
        ELSE deleteTask(L.main, b, t, taskId, fails2, wb, wm))))

---------------------------------------------------------------------------
(* Reads *)

\* the argument is ignored
getTasksForDateToday(m, b, t, date, fails) ==
    SelectSeq(getAllTasks(m, b, t, fails), LAMBDA task : task.date = Today(t))

getTasksForDate(m, b, t, date, fails) ==
    SelectSeq(getAllTasks(m, b, t, fails),
              LAMBDA task : task.date = IF date = Null THEN Today(t) ELSE date)

getTodaysTasks(m, b, t, fails) == getTasksForDate(m, b, t, Null, fails)

RECURSIVE SumOf(_, _)
SumOf(tasks, field) ==
    IF tasks = <<>> THEN 0 ELSE Head(tasks)[field] + SumOf(Tail(tasks), field)

getTaskStatsPendingAll(m, b, t, date, fails) ==
    Let(IF date # Null THEN getTasksForDate(m, b, t, date, fails)
        ELSE getAllTasks(m, b, t, fails), LAMBDA tasks :
    Let(SelectSeq(tasks, LAMBDA task : task.completed), LAMBDA done :
       [total |-> Len(tasks),
        completed |-> Len(done),
        pending |-> Len(tasks),
        overdue |-> Len(SelectSeq(tasks, LAMBDA task : task.overdue /\ ~task.completed)),
        Q1 |-> Len(SelectSeq(tasks, LAMBDA task : task.eisenhowerMatrix = "Q1")),
        Q2 |-> Len(SelectSeq(tasks, LAMBDA task : task.eisenhowerMatrix = "Q2")),
        Q3 |-> Len(SelectSeq(tasks, LAMBDA task : task.eisenhowerMatrix = "Q3")),
        Q4 |-> Len(SelectSeq(tasks, LAMBDA task : task.eisenhowerMatrix = "Q4")),
        totalTime |-> SumOf(tasks, "timeRequired"),
        completedTime |-> SumOf(done, "timeRequired"),
        avgSmartScore |-> IF Len(tasks) > 0
                          THEN [num |-> SumOf(tasks, "smartScore"), den |-> Len(tasks)]
                          ELSE [num |-> 0, den |-> 1]]))

\* avgSmartScore is kept as a fraction: the sum of the scores (in tenths) over
\* the number of tasks, and 0 over 1 when there is no task.
getTaskStats(m, b, t, date, fails) ==
    Let(IF date # Null THEN getTasksForDate(m, b, t, date, fails)
        ELSE getAllTasks(m, b, t, fails), LAMBDA tasks :
    Let(SelectSeq(tasks, LAMBDA task : task.completed), LAMBDA done :
       [total |-> Len(tasks),
        completed |-> Len(done),
        pending |-> Len(SelectSeq(tasks, LAMBDA task : ~task.completed)),
        overdue |-> Len(SelectSeq(tasks, LAMBDA task : task.overdue /\ ~task.completed)),
        Q1 |-> Len(SelectSeq(tasks, LAMBDA task : task.eisenhowerMatrix = "Q1")),
        Q2 |-> Len(SelectSeq(tasks, LAMBDA task : task.eisenhowerMatrix = "Q2")),
        Q3 |-> Len(SelectSeq(tasks, LAMBDA task : task.eisenhowerMatrix = "Q3")),
        Q4 |-> Len(SelectSeq(tasks, LAMBDA task : task.eisenhowerMatrix = "Q4")),
        totalTime |-> SumOf(tasks, "timeRequired"),
        completedTime |-> SumOf(done, "timeRequired"),
        avgSmartScore |-> IF Len(tasks) > 0
                          THEN [num |-> SumOf(tasks, "smartScore"), den |-> Len(tasks)]
                          ELSE [num |-> 0, den |-> 1]]))

ToLowerChar(c) == IF c = "A" THEN "a" ELSE IF c = "B" THEN "b" ELSE c
ToLowerCase(s) == [i \in 1..Len(s) |-> ToLowerChar(s[i])]

Includes(s, sub) ==
    \E i \in 1..(Len(s) - Len(sub) + 1) : SubSeq(s, i, i + Len(sub) - 1) = sub

searchMatches(task, searchTerm) ==
    \/ Includes(ToLowerCase(task.name), searchTerm)
    \/ Includes(ToLowerCase(task.why), searchTerm)
    \/ /\ Has(task.comments, "arr")
       /\ \E i \in 1..Len(task.comments.arr) :
            /\ task.comments.arr[i].text # <<>>
            /\ Includes(ToLowerCase(task.comments.arr[i].text), searchTerm)

searchTasksCaseSensitive(m, b, t, query, dateRange, fails) ==
    Let(getAllTasks(m, b, t, fails), LAMBDA allTasks :
    Let(Trim(query), LAMBDA searchTerm :
        IF searchTerm = <<>> THEN <<>>
        ELSE SelectSeq(
                IF dateRange.start # Null /\ dateRange.end # Null
                THEN SelectSeq(allTasks, LAMBDA task :
                        task.date >= dateRange.start /\ task.date <= dateRange.end)
                ELSE allTasks,
                LAMBDA task : searchMatches(task, searchTerm))))

DefaultSettings ==
    [theme |-> "auto", autoTheme |-> TRUE, notifications |-> TRUE,
     soundEffects |-> FALSE]

\* JSON.parse of the stored text is not caught
getSettingsUncaught(s) ==
    CASE s.st = "absent" -> DefaultSettings
      [] s.st = "corrupt" -> [threw |-> "SyntaxError"]
      [] OTHER -> s.data

\* s is the settings slot
getSettings(s) ==
    CASE s.st = "absent" -> DefaultSettings
      [] s.st = "corrupt" -> DefaultSettings
      [] OTHER -> s.data

\* w says whether the write went through
saveSettings(s, newSettings, w) ==
    IF w THEN [settings |-> Ok(newSettings), ok |-> TRUE]
    ELSE [settings |-> s, ok |-> FALSE]

\* renderTasks(): the tasks whose cards are drawn, in the order drawn
renderTasks(m, b, t, currentView, fails) ==
    Let(getAllTasks(m, b, t, fails), LAMBDA all :
    Let(CASE currentView = "pending" -> SelectSeq(all, LAMBDA task : ~task.completed)
          [] currentView = "completed" -> SelectSeq(all, LAMBDA task : task.completed)
          [] OTHER -> all,
        LAMBDA tasks :
            SortSeq(tasks, LAMBDA x, y :
                IF x.completed # y.completed THEN ~x.completed
                ELSE x.smartScore > y.smartScore)))

\* dateRange is [start, end], with Null for an absent bound.
searchTasks(m, b, t, query, dateRange, fails) ==
    Let(getAllTasks(m, b, t, fails), LAMBDA allTasks :
    Let(Trim(ToLowerCase(query)), LAMBDA searchTerm :
        IF searchTerm = <<>> THEN <<>>
        ELSE SelectSeq(
                IF dateRange.start # Null /\ dateRange.end # Null
                THEN SelectSeq(allTasks, LAMBDA task :
                        task.date >= dateRange.start /\ task.date <= dateRange.end)
                ELSE allTasks,
                LAMBDA task : searchMatches(task, searchTerm))))

---------------------------------------------------------------------------
(* Inputs *)

AddInputs ==
    { [name |-> <<" ", "a">>, why |-> <<"B">>, eta |-> 1, completed |-> TRUE],
      [name |-> <<" ">>, why |-> <<"a">>] }

Patches ==
    { [completed |-> TRUE],
      [completed |-> FALSE],
      [completedAt |-> Null],
      [name |-> <<" ">>, id |-> 2] }

CommentTexts == { <<" ">>, <<"b">> }

\* a patch that names another id
IdPatches == { [id |-> 2, completed |-> TRUE] }

\* patches that name the comments of the task
CommentPatches == { [comments |-> [arr |-> <<>>]] }

\* the task form as populateTaskForm fills it for a task with the comment "b",
\* and with the comments box emptied
Forms ==
    { [name |-> <<"a">>, why |-> <<"b">>, eta |-> Null, timeRequired |-> 60,
       priority |-> 50, eisenhowerMatrix |-> "Q2", comments |-> c] :
        c \in { <<"b">>, <<>> } }

\* a patch that renames the task and gives it the highest priority
RenamePatches == { [name |-> <<"B", " ">>, priority |-> 100] }

\* tasks with a due time, an effort and a quadrant, and with a priority
DueInputs ==
    { [name |-> <<"a">>, why |-> <<"b">>, eta |-> 0, timeRequired |-> 30,
       eisenhowerMatrix |-> "Q1"],
      [name |-> <<"b">>, why |-> <<"a">>, priority |-> 100] }

TaskIds == 1..MaxTasks

IdLists == { <<2, 1>> }

\* one id more than the largest priority, as a drag-and-drop over that many cards
ManyIds == [i \in 1..101 |-> 1]

\* <<1, 1>>: the same card named twice
ReorderLists == IdLists \cup { <<1>>, <<2>>, <<1, 1>>, ManyIds }

RawTasks ==
    [withId |-> [id |-> 1, name |-> <<"a">>, why |-> <<"b">>],
     noId |-> [name |-> <<"B">>, why |-> <<"a">>, priority |-> 0, completed |-> TRUE],
     nonObject |-> [nonObject |-> TRUE]]

Payloads ==
    { [json |-> FALSE],
      [version |-> Version],
      [tasks |-> <<RawTasks.withId, RawTasks.nonObject, RawTasks.withId>>] }

\* What validateTask may be given: every combination of the values below for
\* the four fields the score reads, and tasks with and without id and comments.
RawPriorities == {NaN, -5, 0, 1, 50, 100, 101}
RawTimes == {NaN, 0, 3, 5, 30, 31, 120, 121, 480, 481}
RawEtas == {Null, 0, DayLen, DayLen + 1, 7 * DayLen + 1, 7 * DayLen + 2,
            30 * DayLen + 1, 30 * DayLen + 2}
RawQuadrants == {"", "Q1", "Q2", "Q3", "Q4", "Q5", "constructor"}

ValidateInputs ==
    { [id |-> 1, name |-> <<"a">>, why |-> <<"b">>, priority |-> p,
       timeRequired |-> tr, eta |-> e, eisenhowerMatrix |-> q] :
        p \in RawPriorities, tr \in RawTimes, e \in RawEtas, q \in RawQuadrants }
    \cup
    { [name |-> <<" ", "a">>, why |-> <<"B", " ">>, completed |-> TRUE, eta |-> 0,
       comments |-> [str |-> <<"b">>]],
      [id |-> 2, name |-> <<>>, comments |-> [arr |-> <<[text |-> <<"b">>]>>]],
      [id |-> 2, name |-> <<"a">>, why |-> <<"b">>, eta |-> 0,
       comments |-> [str |-> <<>>]] }

Queries == { <<>>, <<" ">>, <<"A">>, <<"a", "b">>, <<" ", "a">> }
DateRanges == { [start |-> Null, end |-> Null], [start |-> 0, end |-> 0] }

\* What localStorage may hold when the page is opened: nothing, bytes that do
\* not parse, or a collection an earlier session persisted.
PreTask == validateTask([id |-> 1, name |-> <<"a">>, why |-> <<"b">>], 0).task
PreCollection == Merge(InitialData(0), [tasks |-> <<PreTask>>, nextId |-> 2])
PreMain == { Absent, Corrupt, Ok(PreCollection) }
PreBackup == { Absent, Corrupt, Ok(InitialData(0)), Ok(PreCollection) }

\* Collections an earlier version or another program left in the main slot:
\* a nextId above the ids in use, a null among the tasks, no nextId at all.
StoredCollections ==
    { Merge(PreCollection, [nextId |-> 3]),
      Merge(PreCollection, [tasks |-> <<PreTask, RawTasks.nonObject>>, nextId |-> 3]),
      [tasks |-> <<Merge(PreTask, [id |-> 2])>>],
      [tasks |-> <<RawTasks.nonObject>>],
      [version |-> Version] }

StoredMain == PreMain \cup { Ok(c) : c \in StoredCollections }

---------------------------------------------------------------------------
(* State machine *)

\* what the settings slot may hold when the page opens, and what the
\* settings dialog saves
PreSettings == {Absent, Corrupt}

SettingsInputs ==
    { [theme |-> "dark", autoTheme |-> FALSE, notifications |-> TRUE,
       soundEffects |-> FALSE],
      [theme |-> "light", autoTheme |-> FALSE, notifications |-> TRUE,
       soundEffects |-> FALSE] }

Tabs == {1, 2}

NoTabs == [p \in Tabs |-> [pc |-> "idle"]]

Outcome(op, r) ==
    [op |-> op, status |-> r.status, retries |-> r.retries, threw |-> r.threw]

\* the number of failing initializeStorage writes matters only when the main
\* slot is absent; a failed backup write leaves no main write to choose
Fails == IF main.st = "absent" THEN 0..StackDepth ELSE {0}

Loaded(fails) == getAllData(main, backup, now, fails, 0).data

\* new StorageManager() on an empty localStorage: the constructor runs
\* initializeStorage(), whose write may fail
Init ==
    /\ now = 0
    /\ \E wOk \in BOOLEAN : main = initializeStorage(Absent, 0, wOk)
    /\ backup = Absent
    /\ last = [op |-> "construct", status |-> "ok", retries |-> 0, threw |-> "none"]
    /\ tabs = NoTabs
    /\ settings = Absent

\* new StorageManager() on whatever localStorage holds
InitExisting ==
    /\ now = 0
    /\ \E m0 \in PreMain, wOk \in BOOLEAN : main = initializeStorage(m0, 0, wOk)
    /\ backup \in PreBackup
    /\ last = [op |-> "construct", status |-> "ok", retries |-> 0, threw |-> "none"]
    /\ tabs = NoTabs
    /\ settings = Absent

\* new StorageManager() on a slot that may hold a collection of an earlier
\* version; a failed write leaves the slot as it was found
InitStored ==
    /\ now = 0
    /\ \E m0 \in StoredMain, wOk \in BOOLEAN : main = initializeStorage(m0, 0, wOk)
    /\ backup \in PreBackup
    /\ last = [op |-> "construct", status |-> "ok", retries |-> 0, threw |-> "none"]
    /\ tabs = NoTabs
    /\ settings = Absent

Tick ==
    /\ now < MaxTime
    /\ now' = now + 1
    /\ last' = [op |-> "tick", status |-> "ok", retries |-> 0, threw |-> "none"]
    /\ UNCHANGED <<main, backup, tabs, settings>>

\* a page reload constructs the StorageManager again
Reload ==
    /\ \E wOk \in BOOLEAN : main' = initializeStorage(main, now, wOk)
    /\ last' = [op |-> "construct", status |-> "ok", retries |-> 0, threw |-> "none"]
    /\ UNCHANGED <<backup, now, tabs, settings>>

\* a page reload on an existing collection: initializeStorage runs
\* validateAndMigrate and swallows what it throws
Migrate ==
    /\ main.st = "ok"
    /\ \E wOk \in BOOLEAN :
        \E V \in {validateAndMigrate(main, main.data, now, wOk)} :
            /\ main' = V.main
            /\ last' = [op |-> "migrate",
                        status |-> IF V.thrown THEN "failed" ELSE "ok",
                        retries |-> 0,
                        threw |-> IF ~wOk /\ ~migrateThrows(main.data)
                                  THEN "main" ELSE "none"]
    /\ UNCHANGED <<backup, now, tabs, settings>>

Add ==
    \E taskData \in AddInputs, fails \in Fails, wb \in BOOLEAN, wm \in BOOLEAN :
        /\ wb \/ ~wm
        /\ \E data \in {Loaded(fails)} :
                Len(data.tasks) < MaxTasks /\ data.nextId <= MaxId
        /\ \E r \in {addTask(main, backup, now, taskData, fails, wb, wm)} :
            /\ main' = r.main
            /\ backup' = r.backup
            /\ last' = Outcome("add", r)
        /\ UNCHANGED <<now, tabs, settings>>

AddDue ==
    \E taskData \in DueInputs, fails \in Fails, wb \in BOOLEAN, wm \in BOOLEAN :
        /\ wb \/ ~wm
        /\ \E data \in {Loaded(fails)} :
                Len(data.tasks) < MaxTasks /\ data.nextId <= MaxId
        /\ \E r \in {addTask(main, backup, now, taskData, fails, wb, wm)} :
            /\ main' = r.main
            /\ backup' = r.backup
            /\ last' = Outcome("add", r)
        /\ UNCHANGED <<now, tabs, settings>>

UpdateWith(patches) ==
    \E taskId \in TaskIds, updates \in patches, fails \in Fails,
       wb \in BOOLEAN, wm \in BOOLEAN :
        /\ wb \/ ~wm
        /\ \E r \in {updateTask(main, backup, now, taskId, updates, fails, wb, wm)} :
            /\ main' = r.main
            /\ backup' = r.backup
            /\ last' = Merge(Outcome("update", r), [id |-> taskId, patch |-> updates])
        /\ UNCHANGED <<now, tabs, settings>>

Update == UpdateWith(Patches)
Complete == UpdateWith({[completed |-> TRUE]})

Delete ==
    \E taskId \in TaskIds, fails \in Fails, wb \in BOOLEAN, wm \in BOOLEAN :
        /\ wb \/ ~wm
        /\ \E r \in {deleteTask(main, backup, now, taskId, fails, wb, wm)} :
            /\ main' = r.main
            /\ backup' = r.backup
            /\ last' = Merge(Outcome("delete", r), [id |-> taskId])
        /\ UNCHANGED <<now, tabs, settings>>

AddComment ==
    \E taskId \in TaskIds, comment \in CommentTexts, fails \in Fails,
       wb \in BOOLEAN, wm \in BOOLEAN :
        /\ wb \/ ~wm
        /\ \E tasks \in {Loaded(fails).tasks} :
                \A i \in 1..Len(tasks) : Len(tasks[i].comments.arr) < MaxComments
        /\ \E r \in {addComment(main, backup, now, taskId, comment, fails, wb, wm)} :
            /\ main' = r.main
            /\ backup' = r.backup
            /\ last' = Outcome("addComment", r)
        /\ UNCHANGED <<now, tabs, settings>>

Reorder ==
    \E taskIds \in IdLists, fails \in Fails, wb \in BOOLEAN, wm \in BOOLEAN :
        /\ wb \/ ~wm
        /\ \E r \in {reorderTasks(main, backup, now, taskIds, fails, wb, wm)} :
            /\ main' = r.main
            /\ backup' = r.backup
            /\ last' = Outcome("reorder", r)
        /\ UNCHANGED <<now, tabs, settings>>

UpdateComments == UpdateWith(CommentPatches)
UpdateId == UpdateWith(IdPatches)
Rename == UpdateWith(RenamePatches)

\* the task form is submitted while editing the task taskId
Submit ==
    \E taskId \in TaskIds, form \in Forms, fails \in Fails,
       wb \in BOOLEAN, wm \in BOOLEAN :
        /\ wb \/ ~wm
        /\ \E r \in {handleTaskSubmit(main, backup, now, taskId, form, fails, wb, wm)} :
            /\ main' = r.main
            /\ backup' = r.backup
            /\ last' = Outcome("submit", r)
        /\ UNCHANGED <<now, tabs, settings>>

ReorderAny ==
    \E taskIds \in ReorderLists, fails \in Fails, wb \in BOOLEAN, wm \in BOOLEAN :
        /\ wb \/ ~wm
        /\ \E r \in {reorderTasks(main, backup, now, taskIds, fails, wb, wm)} :
            /\ main' = r.main
            /\ backup' = r.backup
            /\ last' = Merge(Outcome("reorder", r), [ids |-> taskIds])
        /\ UNCHANGED <<now, tabs, settings>>

\* a drag-and-drop over more cards than there are priorities
ReorderMany ==
    \E fails \in Fails, wb \in BOOLEAN, wm \in BOOLEAN :
        /\ wb \/ ~wm
        /\ \E r \in {reorderTasks(main, backup, now, ManyIds, fails, wb, wm)} :
            /\ main' = r.main
            /\ backup' = r.backup
            /\ last' = Merge(Outcome("reorder", r), [ids |-> ManyIds])
        /\ UNCHANGED <<now, tabs, settings>>

Import ==
    \E payload \in Payloads, fails \in Fails,
       wi \in BOOLEAN, wb \in BOOLEAN, wm \in BOOLEAN :
        /\ wb \/ ~wm
        /\ \E r \in {importData(main, backup, now, payload, fails, wi, wb, wm)} :
            /\ main' = r.main
            /\ backup' = r.backup
            /\ last' = Merge(Outcome("import", r),
                              [imported |-> r.imported, payload |-> payload])
        /\ UNCHANGED <<now, tabs, settings>>

\* exportData() and then importData() of the text it returned
ExportImport ==
    \E fails \in Fails, wi \in BOOLEAN, wb \in BOOLEAN, wm \in BOOLEAN :
        /\ wb \/ ~wm
        /\ \E E \in {exportData(main, backup, now, fails)} :
           \E fails2 \in IF E.main.st = "absent" THEN 0..StackDepth ELSE {0} :
           \E r \in {importData(E.main, backup, now, E.payload, fails2, wi, wb, wm)} :
            /\ main' = r.main
            /\ backup' = r.backup
            /\ last' = Merge(Outcome("roundtrip", r),
                              [imported |-> r.imported,
                               exported |-> Get(E.payload, "tasks", <<>>)])
        /\ UNCHANGED <<now, tabs, settings>>

ClearAll ==
    \E fails \in Fails, wi \in BOOLEAN, wInit \in BOOLEAN :
        /\ \E r \in {clearAllData(main, backup, now, fails, wi, wInit)} :
            /\ main' = r.main
            /\ backup' = r.backup
            /\ last' = Outcome("clearAll", r)
        /\ UNCHANGED <<now, tabs, settings>>

Restore ==
    \E wOk \in BOOLEAN :
        /\ \E r \in {restoreFromBackup(main, backup, now, wOk)} :
            /\ main' = r.main
            /\ backup' = r.backup
            /\ last' = Merge(Outcome("restore", r),
                              [again |-> last.op = "restore" /\ last.status = "ok"])
        /\ UNCHANGED <<now, tabs, settings>>

\* a click on the checkbox of a card
Toggle ==
    \E taskId \in TaskIds, fails \in Fails, wb \in BOOLEAN, wm \in BOOLEAN :
        /\ wb \/ ~wm
        /\ \E L \in {getAllData(main, backup, now, fails, 0)} :
           \E fails2 \in IF L.main.st = "absent" THEN 0..StackDepth ELSE {0} :
           \E r \in {toggleTaskCompletion(main, backup, now, taskId,
                                          fails, fails2, wb, wm)} :
            /\ main' = r.main
            /\ backup' = r.backup
            /\ last' = Merge(Outcome("toggle", r), [id |-> taskId])
        /\ UNCHANGED <<now, tabs, settings>>

\* a click on the delete button of a card
AppDelete ==
    \E taskId \in TaskIds, confirmed \in BOOLEAN, fails \in Fails,
       wb \in BOOLEAN, wm \in BOOLEAN :
        /\ wb \/ ~wm
        /\ \E L \in {getAllData(main, backup, now, fails, 0)} :
           \E fails2 \in IF L.main.st = "absent" THEN 0..StackDepth ELSE {0} :
           \E r \in {App_deleteTask(main, backup, now, taskId, confirmed,
                                    fails, fails2, wb, wm)} :
            /\ main' = r.main
            /\ backup' = r.backup
            /\ last' = Merge(Outcome("appDelete", r),
                              [id |-> taskId, confirmed |-> confirmed])
        /\ UNCHANGED <<now, tabs, settings>>

\* new StorageManager() on an empty task store, whatever the settings slot
\* holds
InitSettings ==
    /\ now = 0
    /\ \E wOk \in BOOLEAN : main = initializeStorage(Absent, 0, wOk)
    /\ backup = Absent
    /\ last = [op |-> "construct", status |-> "ok", retries |-> 0, threw |-> "none"]
    /\ tabs = NoTabs
    /\ settings \in PreSettings

SaveSettings ==
    \E newSettings \in SettingsInputs, w \in BOOLEAN :
        /\ \E r \in {saveSettings(settings, newSettings, w)} :
            /\ settings' = r.settings
            /\ last' = [op |-> "saveSettings",
                        status |-> IF r.ok THEN "ok" ELSE "failed",
                        retries |-> 0, threw |-> "none"]
        /\ UNCHANGED <<main, backup, now, tabs>>

GetSettings ==
    /\ last' = [op |-> "getSettings", status |-> "ok", retries |-> 0,
                threw |-> "none", value |-> getSettings(settings)]
    /\ UNCHANGED <<main, backup, now, tabs, settings>>

\* a task is about to be validated, at any time of the clock
InitValidate ==
    /\ now \in 0..MaxTime
    /\ main = Absent
    /\ backup = Absent
    /\ last \in { [op |-> "input", status |-> "ok", retries |-> 0,
                    threw |-> "none", raw |-> raw] : raw \in ValidateInputs }
    /\ tabs = NoTabs
    /\ settings = Absent

\* validateTask(raw) on its own
Validate ==
    /\ last.op = "input"
    /\ \E v \in {validateTask(last.raw, now)} :
            last' = [op |-> "validate", status |-> "ok", retries |-> 0,
                     threw |-> "none", raw |-> last.raw, task |-> v.task]
    /\ UNCHANGED <<main, backup, now, tabs, settings>>

\* validateTask on the task the last call returned, the clock not having moved
Revalidate ==
    /\ last.op = "validate"
    /\ \E v \in {validateTask(last.task, now)} :
            last' = [op |-> "revalidate", status |-> "ok", retries |-> 0,
                     threw |-> "none", raw |-> last.task, task |-> v.task]
    /\ UNCHANGED <<main, backup, now, tabs, settings>>

\* Two pages on the same localStorage.  addTask runs to completion in its own
\* page, but its calls to localStorage interleave with the other page's:
\* TabLoad is `const data = this.getAllData()`, TabSave the rest of addTask.
TabLoad(p) ==
    /\ tabs[p].pc = "idle"
    /\ \E taskData \in AddInputs, fails \in Fails :
        \E L \in {getAllData(main, backup, now, fails, 0)} :
            /\ Len(L.data.tasks) < MaxTasks /\ L.data.nextId <= MaxId
            /\ main' = L.main
            /\ tabs' = [tabs EXCEPT ![p] =
                            [pc |-> "loaded", L |-> L, taskData |-> taskData]]
            /\ last' = [op |-> "tabLoad", status |-> "ok", retries |-> L.retries,
                        threw |-> "none"]
    /\ UNCHANGED <<backup, now, settings>>

TabSave(p) ==
    /\ tabs[p].pc = "loaded"
    /\ \E wb \in BOOLEAN, wm \in BOOLEAN :
        /\ wb \/ ~wm
        /\ \E r \in {addTaskFrom(main, backup, now, tabs[p].L, tabs[p].taskData,
                                 wb, wm)} :
            /\ main' = r.main
            /\ backup' = r.backup
            /\ tabs' = [tabs EXCEPT ![p] =
                            [pc |-> "done", status |-> r.status,
                             data |-> tabs[p].L.data]]
            /\ last' = Outcome("tabAdd", r)
    /\ UNCHANGED <<now, settings>>

\* the page is ready for its next addTask
TabReset(p) ==
    /\ tabs[p].pc = "done"
    /\ tabs' = [tabs EXCEPT ![p] = [pc |-> "idle"]]
    /\ last' = [op |-> "tabReset", status |-> "ok", retries |-> 0, threw |-> "none"]
    /\ UNCHANGED <<main, backup, now, settings>>

TabsLoad == \E p \in Tabs : TabLoad(p)
TabsSave == \E p \in Tabs : TabSave(p)
TabsReset == \E p \in Tabs : TabReset(p)

\* the reads: each leaves the slots as getAllData leaves them
GetAll ==
    \E fails \in Fails :
        \E L \in {getAllData(main, backup, now, fails, 0)} :
            /\ main' = L.main
            /\ last' = [op |-> "getAll", status |-> "ok", retries |-> L.retries,
                        threw |-> "none",
                        tasks |-> getAllTasks(main, backup, now, fails)]
            /\ UNCHANGED <<backup, now, tabs, settings>>

GetByDate ==
    \E fails \in Fails, date \in {Null, 0} :
        \E L \in {getAllData(main, backup, now, fails, 0)} :
            /\ main' = L.main
            /\ last' = [op |-> "getByDate", status |-> "ok", retries |-> L.retries,
                        threw |-> "none",
                        date |-> date,
                        tasks |-> getTasksForDate(main, backup, now, date, fails)]
            /\ UNCHANGED <<backup, now, tabs, settings>>

GetToday ==
    \E fails \in Fails :
        \E L \in {getAllData(main, backup, now, fails, 0)} :
            /\ main' = L.main
            /\ last' = [op |-> "getToday", status |-> "ok", retries |-> L.retries,
                        threw |-> "none",
                        tasks |-> getTodaysTasks(main, backup, now, fails)]
            /\ UNCHANGED <<backup, now, tabs, settings>>

Stats ==
    \E fails \in Fails, date \in {Null, 0} :
        \E L \in {getAllData(main, backup, now, fails, 0)} :
            /\ main' = L.main
            /\ last' = [op |-> "stats", status |-> "ok", retries |-> L.retries,
                        threw |-> "none",
                        date |-> date,
                        stats |-> getTaskStats(main, backup, now, date, fails)]
            /\ UNCHANGED <<backup, now, tabs, settings>>

Search ==
    \E fails \in Fails, query \in Queries, dateRange \in DateRanges :
        \E L \in {getAllData(main, backup, now, fails, 0)} :
            /\ main' = L.main
            /\ last' = [op |-> "search", status |-> "ok", retries |-> L.retries,
                        threw |-> "none",
                        query |-> query, range |-> dateRange,
                        tasks |-> searchTasks(main, backup, now, query, dateRange, fails)]
            /\ UNCHANGED <<backup, now, tabs, settings>>

Next ==
    \/ Add \/ Complete \/ Delete \/ AddComment \/ Reorder \/ Import

Spec == Init /\ [][Next]_vars

\* The clock runs while tasks are added and edited.
NextEdit == Tick \/ Add \/ Update

SpecEdit == Init /\ [][NextEdit]_vars

\* The read path over every combination of slot states.
NextRead ==
    Tick \/ Add \/ GetAll \/ GetByDate \/ GetToday \/ Stats \/ Search

SpecRead == InitExisting /\ [][NextRead]_vars

\* The store-level operations.
NextStore == Reload \/ Add \/ Import \/ ClearAll \/ Restore

SpecStore == InitExisting /\ [][NextStore]_vars

\* Drag-and-drop reordering of any list of ids, on collections built by add,
\* delete and import.
NextReorder == Add \/ Delete \/ Import \/ ReorderAny

SpecReorder == Init /\ [][NextReorder]_vars

\* Comments under every operation that rewrites a task.
NextComments == Add \/ AddComment \/ UpdateComments \/ Submit \/ Reorder

SpecComments == Init /\ [][NextComments]_vars

\* Id assignment under every operation that keeps the collection, and under
\* page reloads.
NextIds == Add \/ UpdateId \/ Delete \/ AddComment \/ Reorder \/ Reload

SpecIds == Init /\ [][NextIds]_vars

\* Migration, restore and clearAll on whatever the slots hold.
NextMigrate == Tick \/ Migrate \/ Restore \/ ClearAll

SpecMigrate == InitStored /\ [][NextMigrate]_vars

\* Restore after the operations that write the backup slot.
NextRestore == Add \/ ReorderAny \/ ClearAll \/ Restore

SpecRestore == Init /\ [][NextRestore]_vars

\* Export and import of the collections that add, update, addComment and
\* reorder build.
NextExport == Add \/ Rename \/ AddComment \/ ReorderMany \/ ExportImport

SpecExport == Init /\ [][NextExport]_vars

\* Statistics over collections with overdue and completed tasks.
NextStats == Tick \/ AddDue \/ Complete \/ Stats

SpecStats == InitExisting /\ [][NextStats]_vars

\* The validator and the scoring engine on their own.
NextValidate == Validate \/ Revalidate

SpecValidate == InitValidate /\ [][NextValidate]_vars

\* Restore, once and again, while the clock runs over the due times.
NextRestoreTwice == Tick \/ AddDue \/ Complete \/ ClearAll \/ Restore

SpecRestoreTwice == Init /\ [][NextRestoreTwice]_vars

\* The cards of the task list and their buttons, over more than one day.
NextApp == Tick \/ Add \/ Toggle \/ AppDelete

SpecApp == Init /\ [][NextApp]_vars

\* The settings slot beside the task store.
NextSettings ==
    \/ Add \/ Import \/ ClearAll \/ Restore \/ SaveSettings \/ GetSettings

SpecSettings == InitSettings /\ [][NextSettings]_vars

\* Two pages adding tasks to the same store.
NextTabs == TabsLoad \/ TabsSave \/ TabsReset

SpecTabs == Init /\ [][NextTabs]_vars

TypeOK ==
    /\ main.st \in {"absent", "corrupt", "ok"}
    /\ backup.st \in {"absent", "corrupt", "ok"}
    /\ now \in 0..MaxTime

---------------------------------------------------------------------------
(* Properties *)

TasksOf(slot) == IF slot.st = "ok" THEN slot.data.tasks ELSE <<>>

FailStatuses == {"required", "notfound", "empty", "format"}

SavingOps == {"add", "update", "delete", "addComment", "reorder"}

\* C1: in the persisted collection, nextId is greater than every task id and
\* no two tasks have the same id.
C1_NextIdAboveUniqueIds ==
    main.st = "ok" =>
        LET tasks == main.data.tasks IN
            /\ \A i \in 1..Len(tasks) : main.data.nextId > tasks[i].id
            /\ \A i \in 1..Len(tasks) : \A j \in 1..Len(tasks) :
                    i # j => tasks[i].id # tasks[j].id

\* C2: a successful add on a collection whose nextId is n leaves the previous
\* tasks followed by exactly one new task, whose id is n and whose completed is
\* false, and persists nextId = n + 1.
C2_AddAppendsOne ==
    [][(last'.op = "add" /\ last'.status = "ok") =>
        \E fails \in Fails :
            LET before == Loaded(fails)
                after == main'.data
            IN /\ main'.st = "ok"
               /\ Len(after.tasks) = Len(before.tasks) + 1
               /\ SubSeq(after.tasks, 1, Len(before.tasks)) = before.tasks
               /\ after.tasks[Len(after.tasks)].id = before.nextId
               /\ after.tasks[Len(after.tasks)].completed = FALSE
               /\ after.nextId = before.nextId + 1]_vars

C2_Witness ==
    /\ last.op = "add" /\ last.status = "ok"
    /\ main.st = "ok" /\ Len(main.data.tasks) = 2
    /\ main.data.tasks[2].id = 2 /\ main.data.nextId = 3

\* C3 (as stated): an operation that fails with a validation or not-found
\* error leaves the main slot and the backup slot exactly as they were.
C3_FailedOpLeavesStorage ==
    [][last'.status \in FailStatuses => main' = main /\ backup' = backup]_vars

\* C3 (amended): an operation that fails with a validation or not-found error
\* leaves the backup slot as it was, and leaves the main slot as it was unless
\* the main slot was absent, in which case the load step of add, update,
\* delete or addComment has written the default empty collection into it.
C3_FailedOpOnlyInitializes ==
    [][last'.status \in FailStatuses =>
        /\ backup' = backup
        /\ \/ main' = main
           \/ /\ main.st = "absent"
              /\ last'.op # "import"
              /\ main' = Ok(InitialData(now))]_vars

C3_Witness ==
    /\ last.op = "delete" /\ last.status = "notfound"
    /\ main.st = "ok" /\ Len(main.data.tasks) = 1
    /\ backup.st = "ok" /\ backup # main

\* C4 (as stated): when the write of the main collection throws during add,
\* update, delete, addComment, reorder or import, the operation raises
\* failed-to-persist and the main collection is the same as before the
\* operation.
C4_PersistFailureKeepsMain ==
    [][(last'.op \in SavingOps \cup {"import"} /\ last'.threw = "main") =>
        last'.status = "persist" /\ main' = main]_vars

\* C4 (amended): when the write of the main collection throws, the operation
\* raises failed-to-persist and the main slot is the same as before the
\* operation, unless the main slot was absent, in which case it holds the
\* default empty collection that the load step wrote.
C4_PersistFailureKeepsOrInitializes ==
    [][(last'.op \in SavingOps \cup {"import"} /\ last'.threw = "main") =>
        /\ last'.status = "persist"
        /\ \/ main' = main
           \/ main.st = "absent" /\ main' = Ok(InitialData(now))]_vars

C4_Witness ==
    /\ last.op = "add" /\ last.status = "persist" /\ last.threw = "main"
    /\ main.st = "ok" /\ Len(main.data.tasks) = 1
    /\ backup = main

\* C5: after a successful save by add, update, delete, addComment or reorder
\* with a main collection already persisted, the backup slot holds exactly the
\* main collection as it was immediately before the operation.
C5_BackupIsPreviousMain ==
    [][(last'.op \in SavingOps /\ last'.status = "ok" /\ main.st # "absent") =>
        backup' = main]_vars

C5_Witness ==
    /\ last.op = "addComment" /\ last.status = "ok"
    /\ backup.st = "ok" /\ main.st = "ok"
    /\ Len(backup.data.tasks) = 1 /\ Len(main.data.tasks) = 1
    /\ backup.data.tasks[1].comments.arr = <<>>
    /\ Len(main.data.tasks[1].comments.arr) = 1

\* C6: with a main slot that does not parse, load returns the collection in
\* the backup slot if the backup parses and otherwise a fresh empty collection
\* (no tasks, nextId = 1); every read returns a result whatever the two slots
\* hold, and getAll returns the tasks of the collection load returned.
C6_ReadsRecover ==
    [][(last'.op \in {"getAll", "getByDate", "stats", "search"}) =>
        /\ last'.status = "ok"
        /\ (main.st = "corrupt" /\ backup.st = "ok") =>
                /\ Loaded(0) = backup.data
                /\ last'.op = "getAll" => last'.tasks = backup.data.tasks
        /\ (main.st = "corrupt" /\ backup.st # "ok") =>
                /\ Loaded(0).tasks = <<>> /\ Loaded(0).nextId = 1
                /\ last'.op = "getAll" => last'.tasks = <<>>]_vars

C6_Witness ==
    /\ last.op = "getAll" /\ last.status = "ok"
    /\ main.st = "corrupt" /\ backup.st = "ok"
    /\ Len(last.tasks) = 1

\* C7: load returns after at most one initialize-and-retry, also when the
\* writes of initialize fail.
C7_AtMostOneRetry == last.retries <= 1

\* C8: an update that takes completed from false to true sets completedAt to
\* the current time; every other update leaves completedAt unchanged.
C8_CompletedAtOnTransition ==
    [][(last'.op = "update" /\ last'.status = "ok") =>
        \E fails \in Fails :
            LET before == Loaded(fails).tasks
                after == main'.data.tasks
            IN /\ Len(after) = Len(before)
               /\ \A i \in 1..Len(before) :
                    IF ~before[i].completed /\ after[i].completed
                    THEN after[i].completedAt = now
                    ELSE after[i].completedAt = before[i].completedAt]_vars

C8_Witness ==
    /\ last.op = "update" /\ last.status = "ok" /\ last.patch = [completed |-> TRUE]
    /\ \E i \in 1..Len(TasksOf(main)) :
        /\ main.data.tasks[i].id = last.id
        /\ main.data.tasks[i].completed
        /\ main.data.tasks[i].completedAt = 0
        /\ main.data.tasks[i].updatedAt = 1

\* C9 (as stated): update(id, {completedAt: null}) on a task whose completedAt
\* is set stores completedAt = null.
C9_PatchClearsCompletedAt ==
    [][(last'.op = "update" /\ last'.status = "ok"
            /\ last'.patch = [completedAt |-> Null]) =>
        \A i \in 1..Len(TasksOf(main')) :
            main'.data.tasks[i].id = last'.id =>
                main'.data.tasks[i].completedAt = Null]_vars

\* C9 (amended): no update clears completedAt: update(id, {completedAt: null})
\* on a task whose completedAt is set leaves it set to the same value (the
\* patch's completedAt is ignored), and so does an update whose patch does not
\* name completedAt.
C9_UpdateNeverClearsCompletedAt ==
    [][(last'.op = "update" /\ last'.status = "ok") =>
        \E fails \in Fails :
            LET before == Loaded(fails).tasks
                after == main'.data.tasks
            IN \A i \in 1..Len(before) :
                    before[i].completedAt # Null =>
                        /\ after[i].completedAt # Null
                        /\ last'.patch = [completedAt |-> Null] =>
                                after[i].completedAt = before[i].completedAt]_vars

C9_Witness ==
    /\ last.op = "update" /\ last.status = "ok"
    /\ last.patch = [completedAt |-> Null]
    /\ \E i \in 1..Len(TasksOf(main)) :
        /\ main.data.tasks[i].id = last.id
        /\ main.data.tasks[i].completedAt # Null

\* C10: every task in the persisted collection has a non-empty name and a
\* non-empty why.
C10_NameAndWhyNonEmpty ==
    \A i \in 1..Len(TasksOf(main)) :
        main.data.tasks[i].name # <<>> /\ main.data.tasks[i].why # <<>>

\* C11: every task in the persisted collection has priority in 1..100 and
\* timeRequired >= 5, whatever list of ids reorder was given.
C11_PriorityAndTimeClamped ==
    \A i \in 1..Len(TasksOf(main)) :
        /\ main.data.tasks[i].priority \in 1..100
        /\ main.data.tasks[i].timeRequired >= 5

\* the derived fields of a stored task are the ones the validator and the
\* scoring engine compute from its stored fields at time t
DerivedFresh(task, t) ==
    /\ task.overdue = isTaskOverdue(task, t)
    /\ task.urgent = isTaskUrgent(task)
    /\ task.important = isTaskImportant(task)
    /\ task.smartScore = calculateSmartScore(task, t)

\* C12: after a successful update, addComment or reorder, the stored derived
\* fields (overdue, urgent, important, smartScore) of each task the operation
\* changed equal the values computed, at the time of the operation, from the
\* task's stored priority, eta, eisenhowerMatrix, timeRequired and completed.
C12_DerivedFieldsRestamped ==
    [][(last'.op \in {"update", "addComment", "reorder"} /\ last'.status = "ok") =>
        \E fails \in Fails :
            LET before == Loaded(fails).tasks
                after == main'.data.tasks
            IN \A i \in 1..Len(after) :
                    (\A j \in 1..Len(before) : before[j] # after[i])
                        => DerivedFresh(after[i], now)]_vars

Distinct(ids) == \A i \in 1..Len(ids) : \A j \in 1..Len(ids) : i # j => ids[i] # ids[j]

\* C13: reorder(orderedIds) with distinct ids of existing tasks yields the
\* named tasks in the order of orderedIds, the k-th with priority k, followed
\* by all the tasks not named, unchanged and in their original order; no task
\* of the collection is lost.
C13_ReorderNamedThenUntouched ==
    [][(last'.op = "reorder" /\ last'.status = "ok" /\ Distinct(last'.ids)) =>
        \E fails \in Fails :
            LET before == Loaded(fails).tasks
                after == main'.data.tasks
                ids == last'.ids
                unnamed == SelectSeq(before,
                              LAMBDA task : \A k \in 1..Len(ids) : ids[k] # task.id)
            IN (\A k \in 1..Len(ids) : \E i \in 1..Len(before) : before[i].id = ids[k])
                => /\ Len(after) = Len(before)
                   /\ \A k \in 1..Len(ids) :
                        after[k].id = ids[k] /\ after[k].priority = k
                   /\ \A j \in 1..Len(unnamed) :
                        Len(ids) + j <= Len(after) /\ after[Len(ids) + j] = unnamed[j]]_vars

IsPrefix(s, r) == Len(s) <= Len(r) /\ SubSeq(r, 1, Len(s)) = s

\* C14: comments are append-only: for every task that stays in the collection,
\* its comments before an operation (add, update with any patch, addComment,
\* reorder, an edit submitted through the task form) are a prefix of its
\* comments after it, and a successful addComment extends the comments of its
\* task by exactly one record.
C14_CommentsAppendOnly ==
    [][\A i \in 1..Len(TasksOf(main)) : \A j \in 1..Len(TasksOf(main')) :
            main.data.tasks[i].id = main'.data.tasks[j].id =>
                /\ IsPrefix(main.data.tasks[i].comments.arr,
                            main'.data.tasks[j].comments.arr)
                /\ Len(main'.data.tasks[j].comments.arr) <=
                        Len(main.data.tasks[i].comments.arr)
                            + (IF last'.op = "addComment" /\ last'.status = "ok"
                               THEN 1 ELSE 0)]_vars

\* C15: ids are assigned monotonically.  Across add, update, delete,
\* addComment, reorder and page reloads a persisted collection stays persisted
\* and its nextId never decreases, and a successful add returns an id that is
\* at least the nextId before it and below the nextId after it; so each add
\* returns an id above the id of every earlier add, deleted or not.
C15_IdsMonotone ==
    [][/\ main.st = "ok" => main'.st = "ok" /\ main'.data.nextId >= main.data.nextId
       /\ (last'.op = "add" /\ last'.status = "ok") =>
            /\ main'.st = "ok"
            /\ main'.data.tasks[Len(main'.data.tasks)].id < main'.data.nextId
            /\ main.st = "ok" =>
                    main'.data.tasks[Len(main'.data.tasks)].id >= main.data.nextId
            /\ \A i \in 1..Len(TasksOf(main)) :
                    main.data.tasks[i].id < main'.data.tasks[Len(main'.data.tasks)].id]_vars

\* the id 1 was given out and deleted, and the next add got the id 2
C15_Witness ==
    /\ last.op = "add" /\ last.status = "ok"
    /\ main.st = "ok" /\ Len(main.data.tasks) = 1
    /\ main.data.tasks[1].id = 2 /\ main.data.nextId = 3

\* The tasks of a stored collection that are objects: the ones validateTask
\* accepts.
ObjectTasks(data) == SelectSeq(Get(data, "tasks", <<>>), IsObject)

SameIdentity(after, before) ==
    /\ Len(after) = Len(before)
    /\ \A i \in 1..Len(after) :
        /\ Has(before[i], "id") => after[i].id = before[i].id
        /\ after[i].name = Trim(before[i].name)
        /\ after[i].why = Trim(before[i].why)

C17_MigrateOverwritesBackup ==
    [][(last'.op \in {"migrate", "restore"} /\ last'.status = "ok"
            /\ main.st = "ok") =>
        backup' = main]_vars

\* C18 (as stated): restoreFromBackup on an empty backup slot fails with the
\* no-backup error and leaves the main collection unchanged; when it succeeds
\* the main collection has the backup's tasks with the same ids, names, whys
\* and priorities, and the backup's nextId.
C18_RestoreKeepsBackupFields ==
    [][last'.op = "restore" =>
        /\ backup.st = "absent" => last'.status = "nobackup" /\ main' = main
        /\ last'.status = "ok" =>
            /\ backup.st = "ok" /\ main'.st = "ok"
            /\ SameIdentity(main'.data.tasks, backup.data.tasks)
            /\ \A i \in 1..Len(main'.data.tasks) :
                    main'.data.tasks[i].priority = backup.data.tasks[i].priority
            /\ main'.data.nextId = backup.data.nextId]_vars

C20_ImportReplacesAndBacksUp ==
    [][(last'.op = "import" /\ last'.status = "ok") =>
        /\ main'.st = "ok"
        /\ SameIdentity(main'.data.tasks, ObjectTasks(last'.payload))
        /\ main'.data.nextId = SeqMax(Ids(main'.data.tasks)) + 1
        /\ last'.imported = Len(main'.data.tasks)
        /\ \E fails \in Fails : backup' = Ok(Loaded(fails))]_vars

\* C21: after a successful import of what exportData returned, the collection
\* has as many tasks as were exported and each has the id, name, why and
\* priority it had in the export.
C21_ExportImportRoundTrips ==
    [][(last'.op = "roundtrip" /\ last'.status = "ok") =>
        /\ main'.st = "ok"
        /\ Len(main'.data.tasks) = Len(last'.exported)
        /\ \A i \in 1..Len(main'.data.tasks) :
            /\ main'.data.tasks[i].id = last'.exported[i].id
            /\ main'.data.tasks[i].name = last'.exported[i].name
            /\ main'.data.tasks[i].why = last'.exported[i].why
            /\ main'.data.tasks[i].priority = last'.exported[i].priority]_vars

\* C22: after a successful delete(id) the collection holds no task with that
\* id, holds every other task unchanged and in the same order, and has the
\* nextId it had.
C22_DeleteRemovesOnlyThatId ==
    [][(last'.op = "delete" /\ last'.status = "ok") =>
        \E fails \in Fails :
            LET before == Loaded(fails)
                after == main'.data
            IN /\ main'.st = "ok"
               /\ \A i \in 1..Len(after.tasks) : after.tasks[i].id # last'.id
               /\ Len(after.tasks) < Len(before.tasks)
               /\ after.tasks =
                    SelectSeq(before.tasks, LAMBDA task : task.id # last'.id)
               /\ after.nextId = before.nextId]_vars

\* C22 witness: delete(1) has left the task with id 2 and nextId 3.
C22_Witness ==
    /\ last.op = "delete" /\ last.status = "ok" /\ last.id = 1
    /\ main.st = "ok" /\ Len(main.data.tasks) = 1
    /\ main.data.tasks[1].id = 2 /\ main.data.nextId = 3

\* C23: a successful update(id, patch) changes only the first task with that
\* id: its id stays id whatever the patch names, its createdAt and date stay
\* when the patch does not name them, its updatedAt is the current time, and
\* every other task, the order of the tasks and nextId are unchanged.
C23_UpdateChangesOnlyThatTask ==
    [][(last'.op = "update" /\ last'.status = "ok") =>
        \E fails \in Fails :
            LET before == Loaded(fails)
                after == main'.data
                k == FindIndex(before.tasks, last'.id)
            IN /\ main'.st = "ok"
               /\ k # 0
               /\ Len(after.tasks) = Len(before.tasks)
               /\ after.tasks[k].id = last'.id
               /\ ~Has(last'.patch, "createdAt") =>
                        after.tasks[k].createdAt = before.tasks[k].createdAt
               /\ ~Has(last'.patch, "date") =>
                        after.tasks[k].date = before.tasks[k].date
               /\ after.tasks[k].updatedAt = now
               /\ \A j \in 1..Len(after.tasks) :
                        j # k => after.tasks[j] = before.tasks[j]
               /\ after.nextId = before.nextId]_vars

\* C23 witness: at time 1 an update of task 1 with a patch naming id 2 has
\* been persisted in a collection of two tasks created at time 0.
C23_Witness ==
    /\ last.op = "update" /\ last.status = "ok"
    /\ last.id = 1 /\ Has(last.patch, "id") /\ last.patch.id = 2
    /\ main.st = "ok" /\ Len(main.data.tasks) = 2
    /\ main.data.tasks[1].id = 1 /\ main.data.tasks[2].id = 2
    /\ main.data.tasks[1].createdAt = 0 /\ main.data.tasks[1].updatedAt = 1

\* C24: when both pages have loaded the same collection and both adds have
\* reported success, the persisted collection is that collection with one new
\* task: the later save has replaced what the earlier one wrote.
C24_LaterSaveClobbers ==
    \A p \in Tabs : \A q \in Tabs :
        (/\ p # q
         /\ tabs[p].pc = "done" /\ tabs[p].status = "ok"
         /\ tabs[q].pc = "done" /\ tabs[q].status = "ok"
         /\ tabs[p].data = tabs[q].data) =>
            /\ main.st = "ok"
            /\ Len(main.data.tasks) = Len(tabs[p].data.tasks) + 1
            /\ main.data.nextId = tabs[p].data.nextId + 1

\* C24 witness: both pages loaded the empty collection, both adds reported
\* success, and one task is persisted.
C24_Witness ==
    /\ \A p \in Tabs :
        /\ tabs[p].pc = "done" /\ tabs[p].status = "ok"
        /\ tabs[p].data.tasks = <<>>
    /\ main.st = "ok" /\ Len(main.data.tasks) = 1

\* C25 (as stated): the smartScore of every validated task lies between 7.0
\* and 100.0, and a higher priority never gives a lower score when the other
\* fields and the clock are the same.
C25_ScoreInRangeAndMonotone ==
    [][last'.op = "validate" =>
        /\ last'.task.smartScore \in 70..1000
        /\ \A p \in 1..100 :
            p >= last'.task.priority =>
                calculateSmartScore(Merge(last'.task, [priority |-> p]), now)
                    >= last'.task.smartScore]_vars

\* the terms of the score as C26 lists them
UrgencyTerm(eta, t) ==
    IF eta = Null THEN 5
    ELSE IF eta < t THEN 30
    ELSE IF eta <= t + DayLen THEN 25
    ELSE IF eta <= t + 7 * DayLen THEN 20
    ELSE IF eta <= t + 30 * DayLen THEN 10
    ELSE 5

QuadrantTerm(q) ==
    IF q = "Q1" THEN 20 ELSE IF q = "Q3" THEN 10 ELSE IF q = "Q4" THEN 5 ELSE 15

EffortTerm(m) ==
    IF m <= 30 THEN 10 ELSE IF m <= 120 THEN 8 ELSE IF m <= 480 THEN 5 ELSE 2

\* C26 (as stated): the smartScore of a validated task, in tenths, is
\* priority * 4 plus ten times the urgency, Eisenhower and effort terms, where
\* every quadrant value other than Q1..Q4 gives the Eisenhower term 15.
C26_ScoreIsSumOfTerms ==
    [][last'.op = "validate" =>
        last'.task.smartScore =
            last'.task.priority * 4
            + 10 * (UrgencyTerm(last'.task.eta, now)
                    + QuadrantTerm(last'.task.eisenhowerMatrix)
                    + EffortTerm(last'.task.timeRequired))]_vars

\* C27 (as stated): validate clamps every integer input: priority p becomes
\* min(100, max(1, p)) and timeRequired t becomes max(5, t), 0 included; 50
\* and 60 are used only for an input that is no integer.
C27_ValidateClampsIntegers ==
    [][(last'.op = "validate" /\ Has(last'.raw, "priority")) =>
        /\ last'.task.priority =
            IF last'.raw.priority = NaN THEN 50
            ELSE Min(100, Max(1, last'.raw.priority))
        /\ last'.task.timeRequired =
            IF last'.raw.timeRequired = NaN THEN 60
            ELSE Max(5, last'.raw.timeRequired)]_vars

IdempotentFields ==
    {"id", "name", "why", "eta", "timeRequired", "priority", "eisenhowerMatrix",
     "completed", "comments", "date", "overdue", "urgent", "important",
     "smartScore"}

\* C28: validating a validated task again, with the clock unchanged, returns
\* a task with the same id, name, why, eta, timeRequired, priority,
\* eisenhowerMatrix, completed, comments, date, overdue, urgent, important
\* and smartScore.
C28_ValidateIdempotent ==
    [][last'.op = "revalidate" =>
        \A f \in IdempotentFields : last'.task[f] = last'.raw[f]]_vars

\* C28 witness: a task that got its id from the clock and its comments array
\* from a comment string has been validated a second time.
C28_Witness ==
    /\ last.op = "revalidate"
    /\ last.task.id = DateNow(now)
    /\ last.task.completed
    /\ Len(last.task.comments.arr) = 1

\* the text contains the term, letter case apart
ContainsIgnoringCase(text, term) ==
    \E i \in 0..(Len(text) - Len(term)) :
        \A k \in 1..Len(term) : ToLowerChar(text[i + k]) = ToLowerChar(term[k])

TaskContains(task, term) ==
    \/ ContainsIgnoringCase(task.name, term)
    \/ ContainsIgnoringCase(task.why, term)
    \/ \E c \in 1..Len(task.comments.arr) :
            ContainsIgnoringCase(task.comments.arr[c].text, term)

InDateRange(task, range) ==
    (range.start # Null /\ range.end # Null) =>
        (range.start <= task.date /\ task.date <= range.end)

RECURSIVE SumTo(_, _, _)
SumTo(tasks, field, n) ==
    IF n = 0 THEN 0 ELSE tasks[n][field] + SumTo(tasks, field, n - 1)

\* C30: in the statistics of a collection, or of the tasks of one day, total
\* is completed plus pending, overdue counts the tasks flagged overdue and not
\* completed and is at most pending, totalTime and completedTime are the sums
\* of timeRequired over all and over the completed tasks, so completedTime is
\* at most totalTime, and avgSmartScore is the mean of the scores, 0 when
\* there is no task.
C30_StatsConsistent ==
    [][last'.op = "stats" =>
        \E fails \in Fails :
            LET all == getAllTasks(main, backup, now, fails)
                counted == IF last'.date = Null THEN all
                           ELSE SelectSeq(all, LAMBDA task : task.date = last'.date)
                done == SelectSeq(counted, LAMBDA task : task.completed)
                st == last'.stats
            IN /\ st.total = Len(counted)
               /\ st.total = st.completed + st.pending
               /\ st.completed = Len(done)
               /\ st.overdue =
                    Cardinality({i \in 1..Len(counted) :
                                    counted[i].overdue /\ ~counted[i].completed})
               /\ st.overdue <= st.pending
               /\ st.totalTime = SumTo(counted, "timeRequired", Len(counted))
               /\ st.completedTime = SumTo(done, "timeRequired", Len(done))
               /\ st.completedTime <= st.totalTime
               /\ Len(counted) = 0 => st.avgSmartScore = [num |-> 0, den |-> 1]
               /\ Len(counted) > 0 =>
                    /\ st.avgSmartScore.num = SumTo(counted, "smartScore", Len(counted))
                    /\ st.avgSmartScore.den = Len(counted)]_vars

\* C30 witness: statistics over two tasks, one completed and one overdue.
C30_Witness ==
    /\ last.op = "stats"
    /\ last.stats.total = 2 /\ last.stats.completed = 1 /\ last.stats.overdue = 1

\* C31: saveSettings and getSettings leave the main slot and the backup slot
\* as they were, no task operation (add, import, clearAll, restore) changes
\* the settings slot, and getSettings returns the default settings when the
\* settings slot is absent or holds text that cannot be parsed.
C31_SettingsIndependent ==
    [][/\ last'.op \in {"saveSettings", "getSettings"} =>
            main' = main /\ backup' = backup
       /\ last'.op \notin {"saveSettings", "getSettings"} =>
            settings' = settings
       /\ last'.op = "getSettings" =>
            /\ settings' = settings
            /\ settings.st # "ok" =>
                last'.value = [theme |-> "auto", autoTheme |-> TRUE,
                               notifications |-> TRUE, soundEffects |-> FALSE]
            /\ settings.st = "ok" => last'.value = settings.data]_vars

\* C31 witness: clearAll has run on a store with a task while the settings
\* slot held saved settings.
C31_Witness ==
    /\ last.op = "clearAll" /\ last.status = "ok"
    /\ settings.st = "ok" /\ settings.data.theme = "dark"
    /\ backup.st = "ok" /\ Len(backup.data.tasks) >= 1

ReadOps == {"getAll", "getByDate", "getToday"}

\* the tasks of the collection that getAll returns, dated d
TasksDated(d, fails) ==
    SelectSeq(getAllTasks(main, backup, now, fails), LAMBDA task : task.date = d)

\* C32 (as stated): getAll, getByDate and getToday leave the main slot and the
\* backup slot as they were in every state, getByDate(d) returns exactly the
\* tasks of getAll whose date is d, and getToday those whose date is today.
C32_ReadsArePure ==
    [][last'.op \in ReadOps =>
        /\ main' = main /\ backup' = backup
        /\ \E fails \in Fails :
            /\ (last'.op = "getByDate" /\ last'.date # Null) =>
                    last'.tasks = TasksDated(last'.date, fails)
            /\ (last'.op = "getToday" \/ (last'.op = "getByDate" /\ last'.date = Null)) =>
                    last'.tasks = TasksDated(now \div DayLen, fails)]_vars

\* C32 (amended): getAll, getByDate and getToday leave the backup slot as it
\* was, and the main slot too unless it was absent, in which case the load has
\* written the default empty collection into it; getByDate(d) returns exactly
\* the tasks of getAll whose date is d, and getToday those whose date is today.
C32_ReadsOnlyInitialize ==
    [][last'.op \in ReadOps =>
        /\ backup' = backup
        /\ \/ main' = main
           \/ main.st = "absent" /\ main' = Ok(InitialData(now))
        /\ \E fails \in Fails :
            /\ (last'.op = "getByDate" /\ last'.date # Null) =>
                    last'.tasks = TasksDated(last'.date, fails)
            /\ (last'.op = "getToday" \/ (last'.op = "getByDate" /\ last'.date = Null)) =>
                    last'.tasks = TasksDated(now \div DayLen, fails)]_vars

\* C32 witness: getByDate of the first day has returned one of the two tasks
\* of the collection, on the second day.
C32_Witness ==
    /\ last.op = "getByDate" /\ last.date = 0 /\ now = 1
    /\ main.st = "ok" /\ Len(main.data.tasks) = 2
    /\ Len(last.tasks) = 1

IdSet(tasks) == {tasks[i].id : i \in 1..Len(tasks)}

\* C33: a reorder that succeeds, whatever list of ids it is given, leaves the
\* collection with as many tasks as before and with the same ids, and leaves
\* nextId as it was.
C33_ReorderKeepsIdSet ==
    [][(last'.op = "reorder" /\ last'.status = "ok") =>
        \E fails \in Fails :
            LET before == Loaded(fails)
                after == main'.data
            IN /\ Len(after.tasks) = Len(before.tasks)
               /\ IdSet(after.tasks) = IdSet(before.tasks)
               /\ after.nextId = before.nextId]_vars

\* C34: when add, update, delete, addComment, reorder or import raises
\* failed-to-persist, the backup slot holds what it held before the call.
C34_FailedSaveKeepsBackup ==
    [][(last'.op \in SavingOps \cup {"import"} /\ last'.status = "persist") =>
        backup' = backup]_vars

\* C35: a restoreFromBackup that succeeds leaves the backup slot as it was;
\* one that follows a successful one leaves the tasks and nextId of the main
\* collection as the first left them; and another call made then or later
\* gives the tasks and nextId that a single call made at that time gives.
C35_RestoreIdempotent ==
    [][(last'.op = "restore" /\ last'.status = "ok") =>
        /\ backup' = backup
        /\ last'.again =>
            /\ main'.data.tasks = main.data.tasks
            /\ main'.data.nextId = main.data.nextId
        /\ \A t2 \in now..MaxTime :
            LET twice == restoreFromBackup(main', backup', t2, TRUE)
                once == restoreFromBackup(main, backup, t2, TRUE)
            IN /\ twice.status = "ok" /\ once.status = "ok"
               /\ twice.main.data.tasks = once.main.data.tasks
               /\ twice.main.data.nextId = once.main.data.nextId
               /\ twice.backup = backup]_vars

\* C35 witness: a second restore in a row has succeeded, on the second day,
\* with a backup that holds a task stamped on the first day and now overdue.
C35_Witness ==
    /\ last.op = "restore" /\ last.status = "ok" /\ last.again
    /\ now = 1
    /\ Len(main.data.tasks) >= 1 /\ main.data.tasks[1].overdue
    /\ ~backup.data.tasks[1].overdue
    /\ main # backup

\* C36: for every task that renderTasks lists, whatever its date, a click on
\* its checkbox whose writes go through flips its completed flag, and a click
\* on its delete button that is confirmed and whose writes go through removes
\* it from the collection.
C36_ListedTasksCanBeActedOn ==
    [][(last'.op \in {"toggle", "appDelete"} /\ last'.status # "persist") =>
        \E fails \in Fails :
            LET listed == renderTasks(main, backup, now, "all", fails)
            IN \A i \in 1..Len(listed) :
                listed[i].id = last'.id =>
                    /\ last'.op = "toggle" =>
                        /\ main'.st = "ok"
                        /\ \E j \in 1..Len(main'.data.tasks) :
                            /\ main'.data.tasks[j].id = last'.id
                            /\ main'.data.tasks[j].completed = ~listed[i].completed
                    /\ (last'.op = "appDelete" /\ last'.confirmed) =>
                        /\ main'.st = "ok"
                        /\ \A j \in 1..Len(main'.data.tasks) :
                            main'.data.tasks[j].id # last'.id]_vars

====
